---- MODULE Spec2Model ----
(***************************************************************************)
(* A model of hasher (src/src/main.rs): Merkle-tree hashing of a file,     *)
(* a symbolic link or a directory tree.                                    *)
(*                                                                         *)
(* Representation.                                                         *)
(*   - A byte is a tuple: <<"a">> is the literal byte a; <<k, pre>> is the *)
(*     k-th hexadecimal digit of the SHA-256 digest of the byte string     *)
(*     pre.  SHA-256 is modelled as the ideal (collision-free) hash: a     *)
(*     digest is determined by, and determines, the bytes fed to the       *)
(*     hasher, and a streaming hasher accumulates the bytes of its         *)
(*     updates.                                                            *)
(*   - A String (file name, link target, hex digest, formatted line) is a  *)
(*     sequence of bytes.                                                  *)
(*   - A byte buffer (file content, the input of a hasher) is run-length   *)
(*     encoded, a sequence of runs <<byte, count>> in which adjacent runs  *)
(*     hold different bytes, so that files around the 1 MiB threshold and  *)
(*     the 64 KiB chunk size are modelled with the program's own           *)
(*     constants.                                                          *)
(*                                                                         *)
(* Some operators are written  CHOOSE r \in {e(x) : x \in {x0}} : TRUE,     *)
(* which is e(x0): the argument x0 is then evaluated once, not at every    *)
(* place e uses it.                                                        *)
(***************************************************************************)
EXTENDS Integers, Sequences, FiniteSets, TLC

VARIABLES
    fs,       \* the filesystem tree below the root path (never written)
    threads,  \* rayon::current_num_threads(), fixed by main before hashing
    verbose,  \* args.verbose
    pc,       \* main's position: "start", "hashing", "done"
    calls,    \* the hash_path calls made so far, by path
    stdout,   \* the lines main has printed
    arg,      \* input of the function under test (function-level specs)
    ret       \* outputs of the function under test

vars == <<fs, threads, verbose, pc, calls, stdout, arg, ret>>

\* ------------------------------------------------------------------ bounds

\* Number of symbolic hexadecimal digits of a rendered digest.
HexLen == 2

\* ------------------------------------------------------- program constants

LARGE_FILE_THRESHOLD == 1024 * 1024

CHUNK_SIZE == 64 * 1024

\* ------------------------------------------------------------ bytes, text

Lit(s) == <<s>>

SP == Lit(" ")

LF == Lit("\n")

\* 0xFF: a byte that occurs in no valid UTF-8 text.
XFF == Lit("xFF")

\* The numeric value of a literal byte (raw byte order of OsString/str).
ByteVal(c) ==
    CASE c = LF -> 10
      [] c = SP -> 32
      [] c = Lit(".") -> 46
      [] c = Lit("a") -> 97
      [] c = Lit("b") -> 98
      [] c = Lit("c") -> 99
      [] c = XFF -> 255

\* Vec<u8>::push of n copies of byte c onto a run-length encoded buffer.
PushRun(b0, c, n) ==
    CHOOSE r \in {IF n = 0 THEN b
                  ELSE IF b # <<>> /\ b[Len(b)][1] = c
                       THEN [b EXCEPT ![Len(b)] = <<c, @[2] + n>>]
                       ELSE Append(b, <<c, n>>) : b \in {b0}} : TRUE

RECURSIVE BConcat(_, _)
\* Concatenation of two byte buffers.
BConcat(a, b) ==
    IF b = <<>> THEN a
    ELSE BConcat(PushRun(a, b[1][1], b[1][2]), Tail(b))

RECURSIVE BLen(_)
\* The length in bytes of a buffer (metadata.len(), slice::len).
BLen(b) == IF b = <<>> THEN 0 ELSE b[1][2] + BLen(Tail(b))

RECURSIVE BTake(_, _)
\* The first n bytes of a buffer (all of it when shorter).
BTake(b, n) ==
    IF n = 0 \/ b = <<>> THEN <<>>
    ELSE IF b[1][2] <= n
         THEN <<b[1]>> \o BTake(Tail(b), n - b[1][2])
         ELSE << <<b[1][1], n>> >>

RECURSIVE BDrop(_, _)
\* A buffer without its first n bytes.
BDrop(b, n) ==
    IF n = 0 \/ b = <<>> THEN b
    ELSE IF b[1][2] <= n
         THEN BDrop(Tail(b), n - b[1][2])
         ELSE << <<b[1][1], b[1][2] - n>> >> \o Tail(b)

RECURSIVE AsBytes(_)
\* str::as_bytes: the bytes of a String, as a buffer.
AsBytes(s0) ==
    CHOOSE r \in {IF s = <<>> THEN <<>>
                  ELSE PushRun(AsBytes(SubSeq(s, 1, Len(s) - 1)), s[Len(s)], 1) :
                  s \in {s0}} : TRUE

\* str validity: to_str() is None when the bytes are not UTF-8.
IsUtf8(s) == \A i \in 1..Len(s) : s[i] # XFF

\* ---------------------------------------------------------------- SHA-256

\* Sha256::new()
Sha256New == <<>>

\* hasher.update(data)
Sha256Update(h, data) == BConcat(h, data)

\* hasher.finalize(): the digest of everything fed to the hasher.
Sha256Finalize(h) == [sha256 |-> h]

\* Sha256::digest(data)
Sha256Digest(data) == Sha256Finalize(Sha256Update(Sha256New, data))

\* hex::encode(digest): the digest rendered as hexadecimal digits.
HexEncode(d) ==
    CHOOSE r \in {[k \in 1..HexLen |-> <<k, pre>>] : pre \in {d.sha256}} : TRUE

\* A String that is the rendering of some digest.
IsHexDigest(s) ==
    /\ Len(s) = HexLen
    /\ \A k \in 1..HexLen : Len(s[k]) = 2 /\ s[k][1] = k /\ s[k][2] = s[1][2]

RECURSIVE ChunksDropTail(_, _)
\* (variant) chunks_exact: a final chunk shorter than size is left out.
ChunksDropTail(b0, size) ==
    CHOOSE r \in {IF BLen(b) < size THEN <<>>
                  ELSE <<BTake(b, size)>> \o ChunksDropTail(BDrop(b, size), size) :
                  b \in {b0}} : TRUE

RECURSIVE Chunks(_, _)
\* slice::chunks(size): successive chunks of size bytes, the last one
\* possibly shorter; no chunk at all for an empty slice.
Chunks(b0, size) ==
    CHOOSE r \in {IF b = <<>> THEN <<>>
                  ELSE <<BTake(b, size)>> \o Chunks(BDrop(b, size), size) :
                  b \in {b0}} : TRUE

RECURSIVE UpdateAll(_, _)
\* for chunk in chunks { hasher.update(chunk) }
UpdateAll(h0, chunks) ==
    CHOOSE r \in {IF chunks = <<>> THEN h
                  ELSE UpdateAll(Sha256Update(h, chunks[1]), Tail(chunks)) :
                  h \in {h0}} : TRUE

\* hash_small_file on a readable file of the given content.
HashSmallFile(content) == HexEncode(Sha256Digest(content))

\* hash_large_file on a mappable file of the given content.
HashLargeFile(content) ==
    HexEncode(Sha256Finalize(UpdateAll(Sha256New, Chunks(content, CHUNK_SIZE))))

\* (variant) the entry kind put in front of the target before hashing.
HashSymlinkTagged(target) == HexEncode(Sha256Digest(AsBytes(<<Lit("l")>> \o target)))

\* hash_symlink on a link whose target is valid UTF-8.
HashSymlink(target) == HexEncode(Sha256Digest(AsBytes(target)))

\* format!("{} {}\n", filename, hash)
FormatEntry(filename, hash) == filename \o <<SP>> \o hash \o <<LF>>

RECURSIVE MerkleUpdate(_, _)
\* for (filename, hash) in entries { hasher.update(format!(..).as_bytes()) }
MerkleUpdate(h, entries0) ==
    CHOOSE r \in {IF entries = <<>> THEN h
                  ELSE MerkleUpdate(
                           Sha256Update(h, AsBytes(FormatEntry(entries[1][1], entries[1][2]))),
                           Tail(entries)) : entries \in {entries0}} : TRUE

\* The bytes build_merkle_hash feeds to its hasher.
MerkleInput(entries) == MerkleUpdate(Sha256New, entries)

\* build_merkle_hash
BuildMerkleHash(entries) == HexEncode(Sha256Finalize(MerkleInput(entries)))

\* ------------------------------------------------------------- filesystem

\* The nodes of a filesystem tree.  fail is "none", or the way the node's
\* system calls fail: "stat" (symlink_metadata), "io" (read, open, mmap,
\* read_link, read_dir) or "enum" (an entry of the read_dir iterator).
FileNode(content, fail) ==
    [kind |-> "file", content |-> content, target |-> <<>>,
     children |-> <<>>, fail |-> fail]

LinkNode(target, fail) ==
    [kind |-> "symlink", content |-> <<>>, target |-> target,
     children |-> <<>>, fail |-> fail]

DirNode(children, fail) ==
    [kind |-> "dir", content |-> <<>>, target |-> <<>>,
     children |-> children, fail |-> fail]

\* A FIFO, socket or device node.
OtherNode ==
    [kind |-> "other", content |-> <<>>, target |-> <<>>,
     children |-> <<>>, fail |-> "none"]

\* Number of symbolic links the system follows in one path resolution
\* before it gives up (ELOOP).
MaxHops == 2

Front(p) == SubSeq(p, 1, Len(p) - 1)

Last(p) == p[Len(p)]

RECURSIVE Descend(_, _)
\* The node a link-free path names under node n; NoNode when there is none.
Descend(n, q) ==
    IF q = <<>> THEN <<n>>
    ELSE IF n.kind = "dir" /\ q[1] \in DOMAIN n.children
         THEN Descend(n.children[q[1]], Tail(q))
         ELSE <<>>

\* Where a link at path q with the given target points: "." is the
\* directory holding the link, any other target a name in that directory.
LinkDest(q, target) ==
    IF target = <<Lit(".")>> THEN Front(q) ELSE Append(Front(q), target)

RECURSIVE Canon(_, _, _)
\* The system's path resolution: the link-free path that p names, as <<q>>,
\* or <<>> when resolution fails.  Links in the directory part of p are
\* always followed, a link in the last component only with followLast.
Canon(p, followLast, hops) ==
    IF p = <<>> THEN << <<>> >>
    ELSE LET par == Canon(Front(p), TRUE, hops) IN
         IF par = <<>> THEN <<>>
         ELSE LET q == Append(par[1], Last(p))
                  n == Descend(fs, q)
              IN  IF n = <<>> THEN <<>>
                  ELSE IF n[1].kind = "symlink" /\ followLast
                       THEN IF hops = 0 \/ n[1].fail # "none" THEN <<>>
                            ELSE Canon(LinkDest(q, n[1].target), TRUE, hops - 1)
                       ELSE <<q>>

\* (variant) fs::metadata: the node the path names after following links.
MetadataFollow(p) ==
    LET q == Canon(p, TRUE, MaxHops) IN
    IF q = <<>> \/ Descend(fs, q[1])[1].fail = "stat" THEN <<>>
    ELSE Descend(fs, q[1])

\* fs::symlink_metadata(path): the node the path names, a link in its last
\* component not followed; <<>> when the call fails.
SymlinkMetadata(p) ==
    LET q == Canon(p, FALSE, MaxHops) IN
    IF q = <<>> \/ Descend(fs, q[1])[1].fail = "stat" THEN <<>>
    ELSE Descend(fs, q[1])

\* The node an open, read or read_dir of the path reaches (links followed).
Opened(p) ==
    LET q == Canon(p, TRUE, MaxHops) IN
    IF q = <<>> THEN <<>> ELSE Descend(fs, q[1])

\* ------------------------------------------------------------------ results

Ok(h) == [ok |-> TRUE, hash |-> h, err |-> <<>>]

\* An anyhow error: its context message and the path the message displays
\* (path is <<p>>, or <<>> when the message names no path).
Err(msg, path) == [ok |-> FALSE, hash |-> <<>>, err |-> <<[msg |-> msg, path |-> path]>>]

\* hash_symlink(path)
HashSymlinkAt(p) ==
    LET n == SymlinkMetadata(p) IN
    IF n = <<>> \/ n[1].kind # "symlink" \/ n[1].fail = "io"
    THEN Err("Failed to read symlink", <<p>>)
    ELSE IF ~IsUtf8(n[1].target)
         THEN Err("Symlink target contains invalid UTF-8", <<>>)
         ELSE Ok(HashSymlink(n[1].target))

\* hash_small_file(path)
HashSmallFileAt(p) ==
    LET n == Opened(p) IN
    IF n = <<>> \/ n[1].kind # "file" \/ n[1].fail = "io"
    THEN Err("Failed to read file", <<p>>)
    ELSE Ok(HashSmallFile(n[1].content))

\* hash_large_file(path)
HashLargeFileAt(p) ==
    LET n == Opened(p) IN
    IF n = <<>> \/ n[1].kind # "file" \/ n[1].fail = "io"
    THEN Err("Failed to open file", <<p>>)
    ELSE Ok(HashLargeFile(n[1].content))

\* hash_path(path) for a path that is no directory: the symlink, file and
\* unsupported-type branches, and the metadata failure.
HashLeaf(p) ==
    LET md == SymlinkMetadata(p) IN
    IF md = <<>> THEN Err("Failed to read metadata for", <<p>>)
    ELSE IF md[1].kind = "symlink" THEN HashSymlinkAt(p)
    ELSE IF md[1].kind = "file"
         THEN IF BLen(md[1].content) > LARGE_FILE_THRESHOLD
              THEN HashLargeFileAt(p)
              ELSE HashSmallFileAt(p)
    ELSE Err("Path is neither file nor directory", <<p>>)

\* metadata.is_dir() in hash_path
IsDirPath(p) ==
    LET md == SymlinkMetadata(p) IN md # <<>> /\ md[1].kind = "dir"

\* ---------------------------------------------------------- hash_directory

RECURSIVE ByteLess(_, _)
\* a < b for two file names (OsString's Ord: lexicographic by byte value).
ByteLess(a, b) ==
    IF b = <<>> THEN FALSE
    ELSE IF a = <<>> THEN TRUE
    ELSE IF a[1] = b[1] THEN ByteLess(Tail(a), Tail(b))
    ELSE ByteVal(a[1]) < ByteVal(b[1])

RECURSIVE Insert(_, _)
\* x put into the sorted sequence s, after the elements not above it.
Insert(s, x) ==
    IF s = <<>> THEN <<x>>
    ELSE IF ByteLess(x, s[1]) THEN <<x>> \o s
    ELSE <<s[1]>> \o Insert(Tail(s), x)

RECURSIVE SortByName(_)
SortByName(s) ==
    IF s = <<>> THEN <<>>
    ELSE Insert(SortByName(Front(s)), Last(s))

\* entries.sort_by_key(|e| e.file_name())
SortEntries(enumerated) == SortByName(enumerated)

\* The orders in which read_dir may produce the names of a directory.
Enumerations(names) ==
    {s \in [1..Cardinality(names) -> names] :
        \A i, j \in 1..Cardinality(names) : s[i] = s[j] => i = j}

\* HashResult { path, hash }
HashResult(p, h) == [path |-> p, hash |-> h]

\* The position of a child's name among its directory's sorted entries.
Position(entries, name) == CHOOSE i \in 1..Len(entries) : entries[i] = name

\* (variant) a result put into the first free slot: completion order.
GatherByCompletion(results, i, r) ==
    LET k == CHOOSE j \in 1..Len(results) :
                 results[j] = <<>> /\ \A l \in 1..(j - 1) : results[l] # <<>>
    IN  [results EXCEPT ![k] = <<r>>]

\* collect(): the result of the entry at position i is stored at position i
\* of the collected vector, whenever it arrives.
Gather(results, i, r) == [results EXCEPT ![i] = <<r>>]

\* (variant) the latest error kept.
SaveLastError(saved, e) == <<e>>

\* collect() into Result<Vec<_>>: an error is kept when none is kept yet.
SaveError(saved, e) == IF saved = <<>> THEN <<e>> ELSE saved

\* A hash_path call.  st is "pending" (an entry of a parallel iterator not
\* yet picked up), "called", "dir" (a directory whose children are being
\* hashed), "skipped" (an entry the parallel iterator dropped after an
\* error) or "done".  For a directory past hash_directory's branch, mode is
\* "seq" or "par", entries the sorted names, next the number of entries the
\* sequential iterator has taken, saved the error collect() keeps (<<>> or
\* <<e>>), results the collected vector (a slot is <<>> or <<HashResult>>).
\* res is the value the call returned (<<>> until then).
Frame(st) ==
    [st |-> st, mode |-> "", entries |-> <<>>, next |-> 0, saved |-> <<>>,
     results |-> <<>>, res |-> <<>>]

\* The directory frame of the given mode over the sorted entries.
DirFrame(mode, entries) ==
    [st |-> "dir", mode |-> mode, entries |-> entries, next |-> 0, saved |-> <<>>,
     results |-> [i \in 1..Len(entries) |-> <<>>], res |-> <<>>]

\* The calls cs after hash_path(p) returned r: the call is done and, when it
\* was made by a directory's iterator, collect() has taken the item: a
\* result is gathered, an error saved.
Finish(cs, p, r) ==
    LET done == [cs EXCEPT ![p].st = "done", ![p].res = <<r>>]
        d == Front(p)
    IN  IF p = <<>> THEN done
        ELSE IF r.ok
             THEN [done EXCEPT ![d].results =
                      Gather(@, Position(cs[d].entries, Last(p)), HashResult(p, r.hash))]
             ELSE [done EXCEPT ![d].saved = SaveError(@, r.err[1])]

\* (variant) the pairs taken in reverse order.
ChildHashesReversed(results) ==
    [i \in 1..Len(results) |->
        <<Last(results[Len(results) + 1 - i][1].path), results[Len(results) + 1 - i][1].hash>>]

\* child_hashes: (file name, hash) of every child result, in their order.
ChildHashes(results) ==
    [i \in 1..Len(results) |-> <<Last(results[i][1].path), results[i][1].hash>>]

\* hash_path's directory branch once hash_directory returned child_results:
\* every file name converted to text, then build_merkle_hash.
CombineChildren(results) ==
    IF \E i \in 1..Len(results) : ~IsUtf8(Last(results[i][1].path))
    THEN Err("Invalid filename", <<>>)
    ELSE Ok(BuildMerkleHash(ChildHashes(results)))

RECURSIVE Present(_)
\* The results that have arrived, in their order.
Present(results) ==
    IF results = <<>> THEN <<>>
    ELSE results[1] \o Present(Tail(results))

\* (variant) the children that hashed are combined whatever failed.
DirResultPartial(saved, results) ==
    IF \E i \in 1..Len(Present(results)) : ~IsUtf8(Last(Present(results)[i].path))
    THEN Err("Invalid filename", <<>>)
    ELSE Ok(BuildMerkleHash(
             [i \in 1..Len(Present(results)) |->
                 <<Last(Present(results)[i].path), Present(results)[i].hash>>]))

\* What hash_path returns for a directory: hash_directory(path, verbose)?
\* passes the error on, child_results are combined otherwise.
DirResult(saved, results) ==
    IF saved # <<>>
    THEN [ok |-> FALSE, hash |-> <<>>, err |-> saved]
    ELSE CombineChildren(results)

\* println!("LINK {} -> {}", ..), println!("FILE ..."), println!("DIR  ...")
VerboseLine(tag, p, hash) == <<tag, p, hash>>

\* println!("{}", result.hash)
DigestLine(hash) == <<hash>>

\* stdout once hash_path(p) has computed result r for an entry of the kind
\* the tag names: a line is printed when verbose is set and r is a hash.
Printed(out, tag, p, r) ==
    IF verbose /\ r.ok THEN Append(out, VerboseLine(tag, p, r.hash)) ELSE out

\* ------------------------------------------------------------- the actions

\* Length of the longest path hash_path is called on.
MaxPathLen == 3

\* main: the thread pool is built, hash_path(args.path) is called.
Main ==
    /\ pc = "start"
    /\ pc' = "hashing"
    /\ calls' = (<<>> :> Frame("called"))
    /\ UNCHANGED <<fs, threads, verbose, stdout, arg, ret>>

\* hash_path(p) on a symlink, a file, an unsupported entry or an entry
\* without metadata: the call returns.
LeafReturn(p) ==
    /\ calls[p].st = "called"
    /\ ~IsDirPath(p)
    /\ calls' = Finish(calls, p, HashLeaf(p))
    /\ stdout' = Printed(stdout,
                         IF SymlinkMetadata(p) # <<>> /\ SymlinkMetadata(p)[1].kind = "symlink"
                         THEN "LINK" ELSE "FILE",
                         p, HashLeaf(p))
    /\ UNCHANGED <<fs, threads, verbose, pc, arg, ret>>

\* hash_path(p) on a directory it cannot list: read_dir or its iterator
\* fails and the call returns the error.
DirFail(p) ==
    /\ calls[p].st = "called"
    /\ IsDirPath(p)
    /\ Opened(p) = <<>> \/ Opened(p)[1].fail \in {"io", "enum"}
    /\ calls' = Finish(calls, p,
                    IF Opened(p) # <<>> /\ Opened(p)[1].fail = "enum"
                    THEN Err("Failed to enumerate directory", <<p>>)
                    ELSE Err("Failed to read directory", <<p>>))
    /\ UNCHANGED <<fs, threads, verbose, pc, stdout, arg, ret>>

\* hash_path(p) on a directory: hash_directory lists it (read_dir produces
\* the names in some order), sorts the entries and picks the parallel or the
\* sequential iterator.
EnterDir(p) ==
    /\ calls[p].st = "called"
    /\ IsDirPath(p)
    /\ Len(p) < MaxPathLen
    /\ Opened(p) # <<>> /\ Opened(p)[1].fail = "none"
    /\ \E enumerated \in Enumerations(DOMAIN Opened(p)[1].children) :
         LET entries == SortEntries(enumerated)
             threshold == threads
         IN  IF Len(entries) > threshold
             THEN calls' =
                    [q \in DOMAIN calls \cup {Append(p, entries[i]) : i \in 1..Len(entries)} |->
                        IF q = p THEN DirFrame("par", entries)
                        ELSE IF q \in DOMAIN calls THEN calls[q]
                        ELSE Frame("pending")]
             ELSE calls' = [calls EXCEPT ![p] = DirFrame("seq", entries)]
    /\ UNCHANGED <<fs, threads, verbose, pc, stdout, arg, ret>>

\* The sequential iterator of directory d is between two entries: none is
\* taken yet, or the call on the entry last taken has returned.
SeqIdle(d) ==
    IF calls[d].next = 0 THEN TRUE
    ELSE calls[Append(d, calls[d].entries[calls[d].next])].st = "done"

\* The sequential iterator of directory d takes its next entry and calls
\* hash_path on it; it stops at the first error.
SeqNext(d) ==
    /\ calls[d].st = "dir" /\ calls[d].mode = "seq"
    /\ calls[d].saved = <<>>
    /\ calls[d].next < Len(calls[d].entries)
    /\ SeqIdle(d)
    /\ LET c == Append(d, calls[d].entries[calls[d].next + 1]) IN
       calls' = [q \in DOMAIN calls \cup {c} |->
                    IF q = d THEN [calls[d] EXCEPT !.next = @ + 1]
                    ELSE IF q = c THEN Frame("called")
                    ELSE calls[q]]
    /\ UNCHANGED <<fs, threads, verbose, pc, stdout, arg, ret>>

\* A worker picks up entry c of a parallel iterator and calls hash_path.
ParStart(c) ==
    /\ calls[c].st = "pending"
    /\ calls' = [calls EXCEPT ![c].st = "called"]
    /\ UNCHANGED <<fs, threads, verbose, pc, stdout, arg, ret>>

\* The parallel iterator drops entry c unhashed: an error is already saved.
ParSkip(c) ==
    /\ calls[c].st = "pending"
    /\ calls[Front(c)].saved # <<>>
    /\ calls' = [calls EXCEPT ![c].st = "skipped"]
    /\ UNCHANGED <<fs, threads, verbose, pc, stdout, arg, ret>>

\* hash_directory(d) has joined all its children (or stopped at an error)
\* and hash_path(d) returns: the saved error, or the combined hash.
DirReturn(d) ==
    /\ calls[d].st = "dir"
    /\ \/ /\ calls[d].mode = "par"
          /\ \A i \in 1..Len(calls[d].entries) :
                calls[Append(d, calls[d].entries[i])].st \in {"done", "skipped"}
       \/ /\ calls[d].mode = "seq"
          /\ SeqIdle(d)
          /\ (calls[d].saved # <<>> \/ calls[d].next = Len(calls[d].entries))
    /\ calls' = Finish(calls, d, DirResult(calls[d].saved, calls[d].results))
    /\ stdout' = Printed(stdout, "DIR", d, DirResult(calls[d].saved, calls[d].results))
    /\ UNCHANGED <<fs, threads, verbose, pc, arg, ret>>

\* main: hash_path returned; the root hash is printed, or the error returned.
MainReturn ==
    /\ pc = "hashing"
    /\ calls[<<>>].st = "done"
    /\ pc' = "done"
    /\ stdout' = IF calls[<<>>].res[1].ok
                  THEN Append(stdout, DigestLine(calls[<<>>].res[1].hash))
                  ELSE stdout
    /\ UNCHANGED <<fs, threads, verbose, calls, arg, ret>>

Next ==
    \/ Main
    \/ \E p \in DOMAIN calls : LeafReturn(p)
    \/ \E p \in DOMAIN calls : DirFail(p)
    \/ \E p \in DOMAIN calls : EnterDir(p)
    \/ \E p \in DOMAIN calls : SeqNext(p)
    \/ \E p \in DOMAIN calls : ParStart(p)
    \/ \E p \in DOMAIN calls : ParSkip(p)
    \/ \E p \in DOMAIN calls : DirReturn(p)
    \/ MainReturn

\* ------------------------------------------------------ the trees explored

\* Largest worker-pool size explored.
MaxThreads == 2

\* Largest number of entries of a directory.
MaxEntries == 3

NA == <<Lit("a")>>

NAB == <<Lit("a"), Lit("b")>>

NB == <<Lit("b")>>

\* A file name that is not UTF-8.
NX == <<XFF>>

Names == {NA, NAB, NB, NX}

\* One byte, the bytes of the text "a".
SmallContent == << <<Lit("a"), 1>> >>

\* More than LARGE_FILE_THRESHOLD bytes, the bytes changing inside a chunk.
LargeContent ==
    << <<Lit("a"), CHUNK_SIZE - 1>>, <<Lit("b"), 2>>, <<Lit("a"), LARGE_FILE_THRESHOLD>> >>

\* A link to the directory that holds it.
LinkToDir == LinkNode(<<Lit(".")>>, "none")

\* A link to the entry "a" beside it: itself, a sibling or nothing.
LinkToA == LinkNode(NA, "none")

\* Entries of the fullest directories: two that hash, two that fail.
CoreLeaves ==
    {FileNode(SmallContent, "none"), FileNode(LargeContent, "none"),
     FileNode(SmallContent, "io"), LinkNode(NX, "none")}

Leaves ==
    CoreLeaves \cup
    {FileNode(LargeContent, "io"), FileNode(SmallContent, "stat"),
     LinkToDir, LinkToA, LinkNode(NA, "io"), OtherNode}

\* The directories of at most `most` entries over the given names and nodes.
DirsOver(names, nodes, most) ==
    {DirNode(f, "none") :
        f \in UNION {[S -> nodes] : S \in {T \in SUBSET names : Cardinality(T) <= most}}}

SubLeaves == {FileNode(SmallContent, "none"), LinkToDir, DirNode(<<>>, "none")}

SubDirs ==
    DirsOver({NA, NB}, SubLeaves, MaxEntries)
        \cup {DirNode(<<>>, "io"), DirNode(<<>>, "enum")}

NestLeaves == {FileNode(SmallContent, "none"), FileNode(SmallContent, "io")}

\* Root directories with one subdirectory among their entries.
NestedDirs ==
    {d \in DirsOver({NA, NAB, NB}, NestLeaves \cup SubDirs, MaxEntries) :
        Cardinality({n \in DOMAIN d.children : d.children[n].kind = "dir"}) = 1}

Trees ==
    Leaves \cup SubDirs \cup NestedDirs
        \cup DirsOver(Names, Leaves, MaxEntries - 1)
        \cup DirsOver(Names, CoreLeaves, MaxEntries)

Init ==
    /\ fs \in Trees
    /\ threads \in 1..MaxThreads
    /\ verbose \in BOOLEAN
    /\ pc = "start"
    /\ calls = <<>>
    /\ stdout = <<>>
    /\ arg = <<>>
    /\ ret = <<>>

Spec == Init /\ [][Next]_vars

\* Trees that hold a symbolic link.
RECURSIVE HasLink(_)
HasLink(n) ==
    \/ n.kind = "symlink"
    \/ n.kind = "dir" /\ \E name \in DOMAIN n.children : HasLink(n.children[name])

\* Directories of links (to the directory that holds them, to the entry "a":
\* themselves, a sibling or nothing, of a target that is not UTF-8), of files
\* and of an unreadable directory.
LinkTrees ==
    {t \in DirsOver({NA, NB, NX},
                    {LinkToDir, LinkToA, LinkNode(NX, "none"),
                     FileNode(SmallContent, "none"), DirNode(<<>>, "io")},
                    MaxEntries) : HasLink(t)}

InitLinks ==
    /\ fs \in LinkTrees
    /\ threads \in 1..MaxThreads
    /\ verbose \in BOOLEAN
    /\ pc = "start"
    /\ calls = <<>>
    /\ stdout = <<>>
    /\ arg = <<>>
    /\ ret = <<>>

\* The walk of a tree with links, every enabled step eventually taken: the
\* workers of the pool and the main thread keep running.
FairSpec == InitLinks /\ [][Next]_vars /\ WF_vars(Next)

\* ------------------------------------------------ the digest of a tree

\* The node a call's path names.
NodeAt(p) == Descend(fs, p)[1]

\* The names in ascending raw-byte order.
AscendingNames(names) ==
    CHOOSE s \in Enumerations(names) :
        \A i \in 1..(Cardinality(names) - 1) : ByteLess(s[i], s[i + 1])

RECURSIVE TreeDigest(_)
\* The digest of a tree as a function of the tree alone: a file's content
\* digested whole, a link's target text, a directory's (name, digest) pairs
\* in ascending name order.
TreeDigest(n) ==
    IF n.kind = "file" THEN HexEncode(Sha256Digest(n.content))
    ELSE IF n.kind = "symlink" THEN HexEncode(Sha256Digest(AsBytes(n.target)))
    ELSE LET names == AscendingNames(DOMAIN n.children) IN
         BuildMerkleHash(
             [i \in 1..Len(names) |-> <<names[i], TreeDigest(n.children[names[i]])>>])

RECURSIVE TreeOk(_)
\* Nothing fails in the tree: every entry is a readable file, a readable
\* link of UTF-8 target or a listable directory of UTF-8 names.
TreeOk(n) ==
    /\ n.fail = "none"
    /\ n.kind \in {"file", "symlink", "dir"}
    /\ n.kind = "symlink" => IsUtf8(n.target)
    /\ n.kind = "dir" =>
          \A name \in DOMAIN n.children : IsUtf8(name) /\ TreeOk(n.children[name])

RECURSIVE LinksToFiles(_)
\* The tree with every link replaced by a regular file of the same name
\* whose content is the bytes of the link's target.
LinksToFiles(n) ==
    IF n.kind = "symlink" THEN FileNode(AsBytes(n.target), n.fail)
    ELSE IF n.kind = "dir"
         THEN DirNode([name \in DOMAIN n.children |-> LinksToFiles(n.children[name])], n.fail)
         ELSE n

Done(p) == p \in DOMAIN calls /\ calls[p].st = "done"

Succeeded(p) == Done(p) /\ calls[p].res[1].ok

\* The root digest lines main has printed.
DigestLines == SelectSeq(stdout, LAMBDA l : Len(l) = 1)

Failed(cs, p) == p \in DOMAIN cs /\ cs[p].st = "done" /\ ~cs[p].res[1].ok

\* ------------------------------------------------------------------- claims

\* C1: the digest of a tree does not depend on the pool size, on the order
\* read_dir enumerates or on the order the children complete: every call that
\* succeeds returns the digest that is a function of the tree alone, the
\* results a directory has gathered sit at the position of their name in
\* ascending name order, and a tree in which nothing fails always prints that
\* digest.
C1_DigestDeterministic ==
    /\ \A p \in DOMAIN calls :
          Succeeded(p) => calls[p].res[1].hash = TreeDigest(NodeAt(p))
    /\ \A d \in DOMAIN calls : \A i \in 1..Len(calls[d].results) :
          calls[d].results[i] # <<>> =>
              calls[d].results[i][1].path =
                  Append(d, AscendingNames(DOMAIN NodeAt(d).children)[i])
    /\ pc = "done" /\ TreeOk(fs) => DigestLines = <<DigestLine(TreeDigest(fs))>>

\* C1 witness: in a directory hashed in parallel a later entry has completed
\* and been gathered while an earlier entry has not.
C1_Witness ==
    \E d \in DOMAIN calls :
        /\ calls[d].mode = "par"
        /\ \E i, j \in 1..Len(calls[d].results) :
              i < j /\ calls[d].results[i] = <<>> /\ calls[d].results[j] # <<>>

\* What hashing a child in isolation returns: hash_small_file's digest for a
\* small regular file, the digest of the subtree otherwise.
IsolatedDigest(n) ==
    IF n.kind = "file" /\ BLen(n.content) <= LARGE_FILE_THRESHOLD
    THEN HashSmallFile(n.content)
    ELSE TreeDigest(n)

\* C2: a directory whose call succeeds returns build_merkle_hash of the
\* (file name, digest) pairs of its immediate children in ascending raw-byte
\* name order, each child's digest being the one its own call returned and
\* the one hashing that child in isolation yields.
C2_DirectoryIsMerkleOfChildren ==
    \A d \in DOMAIN calls :
        Succeeded(d) /\ NodeAt(d).kind = "dir" =>
            LET names == AscendingNames(DOMAIN NodeAt(d).children) IN
            /\ \A i \in 1..Len(names) :
                  /\ Succeeded(Append(d, names[i]))
                  /\ calls[Append(d, names[i])].res[1].hash =
                         IsolatedDigest(NodeAt(d).children[names[i]])
            /\ calls[d].res[1].hash =
                  BuildMerkleHash(
                      [i \in 1..Len(names) |->
                          <<names[i], calls[Append(d, names[i])].res[1].hash>>])

\* C2 witness: the root call succeeded on a directory that holds a
\* non-empty subdirectory and at least one more entry.
C2_Witness ==
    /\ Succeeded(<<>>)
    /\ fs.kind = "dir"
    /\ Cardinality(DOMAIN fs.children) >= 2
    /\ \E n \in DOMAIN fs.children :
          fs.children[n].kind = "dir" /\ DOMAIN fs.children[n].children # {}

\* C6: no partial-tree output.  A call on a tree in which something fails
\* returns an error, a directory that returns a digest has a successful call
\* for every one of its entries, and main prints a digest only for a tree in
\* which nothing fails.
C6_NoPartialDigest ==
    /\ \A p \in DOMAIN calls :
          Done(p) /\ ~TreeOk(NodeAt(p)) => ~calls[p].res[1].ok
    /\ \A d \in DOMAIN calls :
          Succeeded(d) /\ NodeAt(d).kind = "dir" =>
              \A n \in DOMAIN NodeAt(d).children : Succeeded(Append(d, n))
    /\ DigestLines # <<>> => TreeOk(fs) /\ Succeeded(<<>>)
    /\ \A i \in 1..Len(stdout) :
          Len(stdout[i]) = 3 /\ stdout[i][1] = "DIR" => TreeOk(NodeAt(stdout[i][2]))

\* C6 witness: main returned without printing, the root directory having
\* gathered the digest of one entry while another entry failed, in a nested
\* directory or directly.
C6_Witness ==
    /\ pc = "done" /\ DigestLines = <<>>
    /\ calls[<<>>].mode \in {"seq", "par"}
    /\ \E i \in 1..Len(calls[<<>>].results) : calls[<<>>].results[i] # <<>>
    /\ \E c \in DOMAIN calls : Len(c) = 1 /\ Failed(calls, c)

\* C7 (as claimed): every error a call returns carries a path, that of the
\* call or of an entry below it.
C7_ErrorsCarryPath ==
    \A p \in DOMAIN calls :
        Failed(calls, p) =>
            /\ calls[p].res[1].err[1].path # <<>>
            /\ SubSeq(calls[p].res[1].err[1].path[1], 1, Len(p)) = p

\* C8: the first error wins.  The error a directory's collect() keeps is
\* never replaced; it is kept at the step at which a child fails while no
\* child of the directory had failed before; the directory returns the kept
\* error; and under the sequential iterator every entry before the one being
\* hashed has succeeded and no entry after it has been called at all.
C8_FirstErrorWins ==
    [][\A d \in DOMAIN calls :
        /\ calls[d].saved # <<>> => calls'[d].saved = calls[d].saved
        /\ calls[d].saved = <<>> /\ calls'[d].saved # <<>> =>
              /\ \A n \in DOMAIN NodeAt(d).children : ~Failed(calls, Append(d, n))
              /\ \E n \in DOMAIN NodeAt(d).children :
                    /\ Failed(calls', Append(d, n))
                    /\ calls'[Append(d, n)].res[1].err = calls'[d].saved
        /\ calls[d].st = "dir" /\ calls'[d].st = "done" /\ calls[d].saved # <<>> =>
              calls'[d].res[1].err = calls[d].saved
        /\ calls'[d].mode = "seq" =>
              \A i \in 1..Len(calls'[d].entries) :
                  /\ i > calls'[d].next => Append(d, calls'[d].entries[i]) \notin DOMAIN calls'
                  /\ i < calls'[d].next =>
                        /\ calls'[Append(d, calls'[d].entries[i])].st = "done"
                        /\ calls'[Append(d, calls'[d].entries[i])].res[1].ok
      ]_vars

\* C8 witness: a directory hashed in parallel has returned the error it kept
\* although two of its entries failed with different errors.
C8_Witness ==
    \E d \in DOMAIN calls :
        /\ calls[d].mode = "par" /\ Failed(calls, d)
        /\ \E m, n \in DOMAIN NodeAt(d).children :
              /\ Failed(calls, Append(d, m)) /\ Failed(calls, Append(d, n))
              /\ calls[Append(d, m)].res[1].err # calls[Append(d, n)].res[1].err
              /\ calls[d].res[1].err = calls[Append(d, n)].res[1].err
              /\ ByteLess(m, n)

\* C9: on a tree with symbolic links (to the directory that holds them, to
\* themselves, to a sibling, to nothing) no call is ever made on a path that
\* runs through a link, so that no entry is visited twice, and main
\* eventually returns.
C9_TerminatesOnLinks ==
    /\ [](\A p \in DOMAIN calls : Canon(p, FALSE, MaxHops) = <<p>>)
    /\ <>(pc = "done")

\* C9 witness: main has returned on a tree whose root holds a link to the
\* root itself, and the link has been hashed.
C9_Witness ==
    /\ pc = "done"
    /\ fs.kind = "dir"
    /\ \E n \in DOMAIN fs.children :
          fs.children[n] = LinkToDir /\ Succeeded(<<n>>)

\* C10: digests are not namespaced by kind.  The digest of a link equals
\* the digest hash_small_file gives a file holding the bytes of the link's
\* target, and the digest main prints is the digest of the tree in which
\* every link is replaced by such a file.
C10_LinkDigestIsFileDigest ==
    /\ \A p \in DOMAIN calls :
          Succeeded(p) /\ NodeAt(p).kind = "symlink" =>
              calls[p].res[1].hash = HashSmallFile(AsBytes(NodeAt(p).target))
    /\ DigestLines # <<>> => DigestLines = <<DigestLine(TreeDigest(LinksToFiles(fs)))>>

\* C10 witness: main printed the digest of a directory that holds a link.
C10_Witness ==
    /\ DigestLines # <<>>
    /\ fs.kind = "dir"
    /\ \E n \in DOMAIN fs.children : fs.children[n].kind = "symlink"

\* --------------------------------------------- the two file strategies

\* Largest number of runs of a file content explored.
MaxRuns == 2

\* Run lengths around the chunk size and the large-file threshold.
RunLengths ==
    {1, CHUNK_SIZE - 1, CHUNK_SIZE, CHUNK_SIZE + 1,
     LARGE_FILE_THRESHOLD, LARGE_FILE_THRESHOLD + 1}

RECURSIVE Buffers(_)
\* The byte buffers of at most k runs of the bytes a and b.
Buffers(k) ==
    IF k = 0 THEN {<<>>}
    ELSE Buffers(k - 1) \cup
         {PushRun(b, c, n) : b \in Buffers(k - 1), c \in {Lit("a"), Lit("b")}, n \in RunLengths}

InitFile ==
    /\ fs \in {FileNode(b, "none") : b \in Buffers(MaxRuns)}
    /\ threads = 1
    /\ verbose = FALSE
    /\ pc = "file"
    /\ calls = <<>>
    /\ stdout = <<>>
    /\ arg = <<>>
    /\ ret = [small |-> <<>>, large |-> <<>>, path |-> <<>>]

\* hash_small_file is called on the file.
CallHashSmallFile ==
    /\ pc = "file" /\ ret.small = <<>>
    /\ ret' = [ret EXCEPT !.small = <<HashSmallFileAt(<<>>)>>]
    /\ UNCHANGED <<fs, threads, verbose, pc, calls, stdout, arg>>

\* hash_large_file is called on the file.
CallHashLargeFile ==
    /\ pc = "file" /\ ret.large = <<>>
    /\ ret' = [ret EXCEPT !.large = <<HashLargeFileAt(<<>>)>>]
    /\ UNCHANGED <<fs, threads, verbose, pc, calls, stdout, arg>>

\* hash_path is called on the file and picks the strategy by its size.
CallHashPath ==
    /\ pc = "file" /\ ret.path = <<>>
    /\ ret' = [ret EXCEPT !.path = <<HashLeaf(<<>>)>>]
    /\ UNCHANGED <<fs, threads, verbose, pc, calls, stdout, arg>>

FileNext == CallHashSmallFile \/ CallHashLargeFile \/ CallHashPath

FileSpec == InitFile /\ [][FileNext]_vars

\* C3: for every content, hash_large_file (updates of successive 65,536-byte
\* chunks, the last possibly shorter) returns the digest hash_small_file
\* returns (one digest of the whole content), and so does hash_path whichever
\* of the two it picks.
C3_ChunkedEqualsWhole ==
    /\ ret.small # <<>> /\ ret.large # <<>> =>
          ret.large[1].ok /\ ret.small[1].ok /\ ret.large[1].hash = ret.small[1].hash
    /\ ret.small # <<>> /\ ret.path # <<>> => ret.path[1] = ret.small[1]

\* C3 witness: both strategies have hashed a content of more than one chunk
\* whose last chunk is shorter than the others and whose bytes change inside
\* a chunk.
C3_Witness ==
    /\ pc = "file"
    /\ ret.small # <<>> /\ ret.large # <<>> /\ ret.path # <<>>
    /\ BLen(fs.content) > LARGE_FILE_THRESHOLD
    /\ BLen(fs.content) % CHUNK_SIZE # 0
    /\ Len(fs.content) = 2 /\ fs.content[1][2] % CHUNK_SIZE # 0

\* ---------------------------------------------------- build_merkle_hash

\* Largest number of entries of a list handed to build_merkle_hash.
MaxList == 2

\* Two digests, as hash_path renders them.
MerkleDigests == {HashSmallFile(SmallContent), HashSmallFile(<<>>)}

\* File names: "a", "b" and names with a space and a line feed inside, made
\* of a name, a space, a digest, a line feed and a name.
MerkleNames ==
    {NA, NB} \cup {FormatEntry(NA, h) \o n : h \in MerkleDigests, n \in {NA, NB}}

RECURSIVE Lists(_, _)
\* The sequences of at most k elements of S.
Lists(S, k) ==
    IF k = 0 THEN {<<>>}
    ELSE Lists(S, k - 1) \cup {Append(l, e) : l \in Lists(S, k - 1), e \in S}

InitMerkle ==
    /\ arg \in [a : Lists(MerkleNames \X MerkleDigests, MaxList),
                b : Lists(MerkleNames \X MerkleDigests, MaxList)]
    /\ ret = [a |-> <<>>, b |-> <<>>]
    /\ fs = OtherNode
    /\ threads = 1
    /\ verbose = FALSE
    /\ pc = "merkle"
    /\ calls = <<>>
    /\ stdout = <<>>

\* build_merkle_hash is called on the first list: the bytes fed to the
\* hasher and the hash returned.
CallMerkleA ==
    /\ pc = "merkle" /\ ret.a = <<>>
    /\ ret' = [ret EXCEPT !.a = <<[input |-> MerkleInput(arg.a), hash |-> BuildMerkleHash(arg.a)]>>]
    /\ UNCHANGED <<fs, threads, verbose, pc, calls, stdout, arg>>

\* build_merkle_hash is called on the second list.
CallMerkleB ==
    /\ pc = "merkle" /\ ret.b = <<>>
    /\ ret' = [ret EXCEPT !.b = <<[input |-> MerkleInput(arg.b), hash |-> BuildMerkleHash(arg.b)]>>]
    /\ UNCHANGED <<fs, threads, verbose, pc, calls, stdout, arg>>

MerkleNext == CallMerkleA \/ CallMerkleB

MerkleSpec == InitMerkle /\ [][MerkleNext]_vars

\* The list l with the entries at positions i and j exchanged.
Swapped(l, i, j) == [l EXCEPT ![i] = l[j], ![j] = l[i]]

\* A name the host filesystem can hold: not empty, at most 255 bytes, no
\* slash and no NUL byte, neither "." nor "..".
IsHostName(n) ==
    /\ n # <<>> /\ Len(n) <= 255
    /\ \A i \in 1..Len(n) : n[i] # Lit("/") /\ n[i] # Lit("NUL")
    /\ n # <<Lit(".")>> /\ n # <<Lit("."), Lit(".")>>

\* C4 (as claimed): whatever the list, exchanging two entries that differ
\* changes the hash build_merkle_hash returns.
C4_OrderSensitive ==
    ret.a # <<>> /\ ret.b # <<>> =>
        \A i, j \in 1..Len(arg.a) :
            arg.a[i] # arg.a[j] /\ arg.b = Swapped(arg.a, i, j) =>
                ret.a[1].hash # ret.b[1].hash

\* C5 (as claimed): two different lists of entries whose names the host
\* filesystem can hold and whose digests are rendered digests feed different
\* bytes to the hasher.
C5_SerializationUnambiguous ==
    /\ ret.a # <<>> /\ ret.b # <<>>
    /\ arg.a # arg.b
    /\ \A i \in 1..Len(arg.a) : IsHostName(arg.a[i][1]) /\ IsHexDigest(arg.a[i][2])
    /\ \A i \in 1..Len(arg.b) : IsHostName(arg.b[i][1]) /\ IsHexDigest(arg.b[i][2])
    => ret.a[1].input # ret.b[1].input

====
